---- MODULE Spec2Model ----
(***************************************************************************)
(* Model of medusa/helpers/externals.py: aggregation of a show's external  *)
(* IDs over the other indexers and Trakt, the library duplicate check, and *)
(* the indexer_mapping table that persists the ID mappings.                *)
(*                                                                         *)
(* A Python dict is a sequence of [k, v] entries with distinct keys, in    *)
(* insertion order.  An ID is a natural number; Empty stands for every     *)
(* falsy ID (None, '', 0), and dict.get of a missing key gives Empty.      *)
(***************************************************************************)
EXTENDS Integers, Sequences, FiniteSets, TLC

----------------------------------------------------------------------------
(* Bounds of the model *)

MaxId == 2
MaxSaves == 2
MaxShows == 2

Empty == 0
Ids == 1..MaxId
Vals == 0..MaxId

----------------------------------------------------------------------------
(* Configuration imported by the module *)

\* indexerConfig (medusa.indexers.config): the indexers, in the order of the
\* config dict, each with its mapped_to key.
indexerConfig == << [id |-> 1, mapped_to |-> "tvdb_id"],
                    [id |-> 3, mapped_to |-> "tvmaze_id"],
                    [id |-> 4, mapped_to |-> "tmdb_id"] >>

Indexers == {indexerConfig[i].id : i \in DOMAIN indexerConfig}

\* mappings (medusa.indexers.utils): indexer or external id -> mapped_to key,
\* the indexers of indexerConfig followed by the external-only sources.
mappings == (1 :> "tvdb_id") @@ (3 :> "tvmaze_id") @@ (4 :> "tmdb_id")
            @@ (10 :> "imdb_id") @@ (12 :> "trakt_id")

\* reverse_mappings (medusa.indexers.utils): mapped_to key -> id.
reverse_mappings == [key \in {mappings[i] : i \in DOMAIN mappings} |->
                        CHOOSE i \in DOMAIN mappings : mappings[i] = key]

\* A key that no mapping knows.
UnmappedKey == "zap2it_id"

----------------------------------------------------------------------------
(* Python dicts *)

DictKeys(d) == {d[i].k : i \in DOMAIN d}

Has(d, key) == key \in DictKeys(d)

\* d.get(key)
Get(d, key) == IF Has(d, key)
               THEN d[CHOOSE i \in DOMAIN d : d[i].k = key].v
               ELSE Empty

\* d[key] = val: an existing key keeps its place, a new key goes last.
SetItem(d, key, val) ==
    IF Has(d, key)
    THEN [i \in DOMAIN d |-> IF d[i].k = key THEN [k |-> key, v |-> val] ELSE d[i]]
    ELSE Append(d, [k |-> key, v |-> val])

\* d.update(e)
RECURSIVE Update(_, _)
Update(d, e) == IF e = << >> THEN d
                ELSE Update(SetItem(d, Head(e).k, Head(e).v), Tail(e))

\* The entries of a dict, as a set of <<key, value>> pairs.
Items(d) == {<<d[i].k, d[i].v>> : i \in DOMAIN d}

\* The dicts over the keys of the sequence ks, taken in that order, each key
\* either left out or given a value of V.
RECURSIVE DictsOver(_, _)
DictsOver(ks, V) ==
    IF ks = << >> THEN {<< >>}
    ELSE LET rest == DictsOver(Tail(ks), V)
         IN rest \cup {<<[k |-> Head(ks), v |-> val]>> \o d : val \in V, d \in rest}

RECURSIVE Perms(_)
Perms(S) == IF S = {} THEN {<< >>}
            ELSE UNION {{<<x>> \o p : p \in Perms(S \ {x})} : x \in S}

----------------------------------------------------------------------------
(* State *)

VARIABLES db,        \* the rows of the indexer_mapping table
          nSaves,    \* save_externals_to_db calls made so far
          showList,  \* app.showList, the library
          USE_TRAKT, \* app.USE_TRAKT
          call,      \* the call a caller has made and that has not run yet
          ret,       \* what the last call that ran gave back
          gx,        \* the get_externals call in progress
          tk         \* the get_trakt_externals call in progress

vars == <<db, nSaves, showList, USE_TRAKT, call, ret, gx, tk>>

NoCall == [op |-> "none", indexer |-> 0, id |-> Empty, externals |-> << >>]

NoRet == [op |-> "none", touched |-> FALSE, externals |-> << >>,
          show |-> << >>, raised |-> FALSE]

\* No get_externals call and no get_trakt_externals call is in progress.
NoGx == [pc |-> "idle"]
NoTk == [pc |-> "idle"]

\* A caller makes a call, the result of the call before it forgotten; the
\* body of the call runs in the next step.
Invoke(op, indexer, id, externals) ==
    /\ call' = [op |-> op, indexer |-> indexer, id |-> id, externals |-> externals]
    /\ ret' = NoRet
    /\ UNCHANGED <<db, nSaves, showList, USE_TRAKT, gx, tk>>

----------------------------------------------------------------------------
(* save_externals_to_db *)

Row(indexer_id, indexer, mindexer_id, mindexer) ==
    [indexer_id |-> indexer_id, indexer |-> indexer,
     mindexer_id |-> mindexer_id, mindexer |-> mindexer]

StorableAnyProvider(indexer, externals, key) ==
    /\ key \in DOMAIN reverse_mappings
    /\ Get(externals, key) # Empty

\* The condition under which an entry of externals is stored.
Storable(indexer, externals, key) ==
    /\ key \in DOMAIN reverse_mappings
    /\ Get(externals, key) # Empty
    /\ reverse_mappings[key] # indexer

\* sql_l: one INSERT per storable entry, in the dict's order.
RECURSIVE SqlList(_, _, _, _)
SqlList(indexer, series_id, externals, rest) ==
    IF rest = << >> THEN << >>
    ELSE LET key == Head(rest).k
         IN (IF Storable(indexer, externals, key)
             THEN << Row(series_id, indexer, Get(externals, key), reverse_mappings[key]) >>
             ELSE << >>)
            \o SqlList(indexer, series_id, externals, Tail(rest))

\* INSERT OR IGNORE: the row is dropped when a row with the same
\* (indexer_id, indexer, mindexer), the table's key, is stored already.
InsertOrIgnore(table, row) ==
    IF \E r \in table : /\ r.indexer_id = row.indexer_id
                        /\ r.indexer = row.indexer
                        /\ r.mindexer = row.mindexer
    THEN table
    ELSE table \cup {row}

\* mass_action: the statements run in order.
RECURSIVE MassAction(_, _)
MassAction(table, sql_l) ==
    IF sql_l = << >> THEN table
    ELSE MassAction(InsertOrIgnore(table, Head(sql_l)), Tail(sql_l))

\* The externals handed to save_externals_to_db.  The statements of one call
\* insert rows of different mindexers, so the order of the dict does not
\* change the table and one order of the keys is enumerated; the value
\* under a key that no mapping knows is never read.
SaveKeys == <<"tvdb_id", "tmdb_id", UnmappedKey>>
SaveInputs == {d \in DictsOver(SaveKeys, Vals) : Get(d, UnmappedKey) \in {Empty, MaxId}}

CallSave == /\ call = NoCall
            /\ nSaves < MaxSaves
            /\ \E indexer \in Indexers, series_id \in Ids, externals \in SaveInputs :
                  Invoke("save", indexer, series_id, externals)

save_externals_to_db ==
    LET sql_l == SqlList(call.indexer, call.id, call.externals, call.externals)
    IN /\ call.op = "save"
       /\ nSaves' = nSaves + 1
       /\ db' = IF sql_l # << >> THEN MassAction(db, sql_l) ELSE db
       /\ ret' = [NoRet EXCEPT !.op = "save", !.touched = (sql_l # << >>)]
       /\ call' = NoCall
       /\ UNCHANGED <<showList, USE_TRAKT, gx, tk>>

----------------------------------------------------------------------------
(* load_externals_from_db *)

SelectedForward(table, indexer, indexer_id) ==
    {r \in table : r.indexer = indexer /\ r.indexer_id = indexer_id}

\* The rows the SELECT returns.
Selected(table, indexer, indexer_id) ==
    {r \in table : \/ (r.indexer = indexer /\ r.indexer_id = indexer_id)
                   \/ (r.mindexer = indexer /\ r.mindexer_id = indexer_id)}

RECURSIVE LoadLoopOneBranch(_, _, _)
LoadLoopOneBranch(externals, results, indexer) ==
    IF results = << >> THEN externals
    ELSE LET result == Head(results)
         IN LoadLoopOneBranch(IF result.indexer \in DOMAIN mappings
                               THEN SetItem(externals, mappings[result.indexer], result.indexer_id)
                               ELSE externals,
                               Tail(results), indexer)

\* The loop over the results, a KeyError leaving externals as it is.
RECURSIVE LoadLoop(_, _, _)
LoadLoop(externals, results, indexer) ==
    IF results = << >> THEN externals
    ELSE LET result == Head(results)
             other == IF result.indexer = indexer THEN result.mindexer ELSE result.indexer
             value == IF result.indexer = indexer THEN result.mindexer_id ELSE result.indexer_id
         IN LoadLoop(IF other \in DOMAIN mappings
                     THEN SetItem(externals, mappings[other], value)
                     ELSE externals,
                     Tail(results), indexer)

\* What load_externals_from_db can return: the SELECT has no ORDER BY, so
\* the rows come in any order.
LoadResults(table, indexer, indexer_id) ==
    {LoadLoop(<< >>, results, indexer) : results \in Perms(Selected(table, indexer, indexer_id))}

----------------------------------------------------------------------------
(* Specification of the mapping table: calls of save_externals_to_db on a  *)
(* table that starts empty.                                                *)

InitDb == /\ db = {}
          /\ nSaves = 0
          /\ showList = << >>
          /\ USE_TRAKT = FALSE
          /\ call = NoCall
          /\ ret = NoRet
          /\ gx = NoGx
          /\ tk = NoTk

NextDb == \/ CallSave
          \/ save_externals_to_db

SpecDb == InitDb /\ [][NextDb]_vars

\* The step in which the body of save_externals_to_db runs.
SaveRuns == call.op = "save" /\ call'.op = "none"

\* The entries of the saved externals that the claims call eligible.
EligibleItems(indexer, externals) ==
    {it \in Items(externals) : /\ \E i \in DOMAIN mappings : mappings[i] = it[1] /\ i # indexer
                               /\ it[2] # Empty}

\* C5: when the table holds no row for the show, what
\* load_externals_from_db(indexer, series_id) returns after
\* save_externals_to_db(indexer, series_id, externals) is exactly the entries
\* of externals with a known mapped-to key, a non-empty ID and a provider
\* other than indexer, each with the saved ID.
C5_StoreLoadRoundTrip ==
    [][(SaveRuns /\ Selected(db, call.indexer, call.id) = {})
        => \A loaded \in LoadResults(db', call.indexer, call.id) :
              Items(loaded) = EligibleItems(call.indexer, call.externals)]_vars

\* A first save has stored two entries, on a table that held nothing.
C5_Witness == /\ ret.op = "save" /\ ret.touched
              /\ nSaves = 1
              /\ Cardinality(db) = 2

RowsWellFormed(table) ==
    \A r \in table : /\ r.mindexer # r.indexer
                     /\ r.mindexer_id # Empty
                     /\ \E key \in DOMAIN reverse_mappings : reverse_mappings[key] = r.mindexer

\* C9: no stored row maps a provider to itself, has an empty mapped ID or a
\* mindexer outside the known mapped-to keys, and a save without an eligible
\* entry opens no connection and leaves the table as it was.
C9_StoredRowsWellFormed ==
    [][/\ RowsWellFormed(db')
       /\ (SaveRuns /\ EligibleItems(call.indexer, call.externals) = {})
            => (db' = db /\ ~ret'.touched)]_vars

\* A save without an eligible entry (its own key, an empty ID or an unknown
\* key at most) has run on a table that holds rows.
C9_Witness == /\ ret.op = "save" /\ ~ret.touched
              /\ nSaves = MaxSaves
              /\ db # {}

\* The rows that link (A, a) with provider B, or (B, b) with provider A,
\* other than the link between (A, a) and (B, b).
OtherLinks(table, A, a, B, b) ==
    {r \in table : \/ (r.indexer = A /\ r.mindexer = B /\ (r.indexer_id = a) # (r.mindexer_id = b))
                   \/ (r.indexer = B /\ r.mindexer = A /\ (r.indexer_id = b) # (r.mindexer_id = a))}

BothSides(table, A, a, B, b) ==
    /\ \A loaded \in LoadResults(table, B, b) : Get(loaded, mappings[A]) = a
    /\ \A loaded \in LoadResults(table, A, a) : Get(loaded, mappings[B]) = b

\* C10, as stated: after save_externals_to_db(A, a, {key_B: b}) with B # A
\* and b non-empty, load_externals_from_db(B, b) has A's key with a, and
\* load_externals_from_db(A, a) has key_B with b.
C10_BothSidesAlways ==
    [][(SaveRuns /\ Len(call.externals) = 1)
        => LET key == call.externals[1].k
               b == call.externals[1].v
           IN (key \in DOMAIN reverse_mappings /\ b # Empty
                 /\ reverse_mappings[key] # call.indexer)
              => BothSides(db', call.indexer, call.id, reverse_mappings[key], b)]_vars

\* C10, amended: the same, provided the table holds no row that links (A, a)
\* to another ID of provider B or (B, b) to another ID of provider A.
C10_BothSidesWhenUnlinked ==
    [][SaveRuns
        => \A i \in DOMAIN call.externals :
              LET key == call.externals[i].k
                  b == call.externals[i].v
              IN (key \in DOMAIN reverse_mappings /\ b # Empty
                    /\ reverse_mappings[key] # call.indexer
                    /\ OtherLinks(db, call.indexer, call.id, reverse_mappings[key], b) = {})
                 => BothSides(db', call.indexer, call.id, reverse_mappings[key], b)]_vars

\* Two saves have stored rows, one of them a link that no other row
\* contradicts and that both of its sides load.
C10_Witness ==
    /\ ret.op = "save" /\ ret.touched
    /\ nSaves = MaxSaves
    /\ \E r \in db :
          /\ db \ {r} # {}
          /\ OtherLinks(db \ {r}, r.indexer, r.indexer_id, r.mindexer, r.mindexer_id) = {}
          /\ BothSides(db, r.indexer, r.indexer_id, r.mindexer, r.mindexer_id)

----------------------------------------------------------------------------
(* show_in_library *)

\* The loop over viewitems(externals) for one show of the library.
RECURSIVE ItemsMatchIdOnly(_, _)
ItemsMatchIdOnly(show, externals) ==
    IF externals = << >> THEN FALSE
    ELSE IF Head(externals).v = show.series_id
         THEN TRUE
         ELSE ItemsMatchIdOnly(show, Tail(externals))

RECURSIVE ItemsMatch(_, _)
ItemsMatch(show, externals) ==
    IF externals = << >> THEN FALSE
    ELSE IF /\ reverse_mappings[Head(externals).k] = show.indexer
            /\ Head(externals).v = show.series_id
         THEN TRUE
         ELSE ItemsMatch(show, Tail(externals))

\* The loop over app.showList: the show returned, as a sequence of one show,
\* or the empty sequence when the function falls off its end.
RECURSIVE ShowLoop(_, _)
ShowLoop(shows, externals) ==
    IF shows = << >> THEN << >>
    ELSE IF ItemsMatch(Head(shows), externals)
         THEN << Head(shows) >>
         ELSE ShowLoop(Tail(shows), externals)

show_in_library ==
    /\ call.op = "show_in_library"
    /\ \E externals \in LoadResults(db, call.indexer, call.id) :
          ret' = [NoRet EXCEPT !.op = "show_in_library",
                               !.touched = TRUE,
                               !.externals = externals,
                               !.show = IF externals # << >>
                                        THEN ShowLoop(showList, externals)
                                        ELSE << >>]
    /\ call' = NoCall
    /\ UNCHANGED <<db, nSaves, showList, USE_TRAKT, gx, tk>>

----------------------------------------------------------------------------
(* Specification of the library lookup: a library of shows, mappings saved *)
(* for a show of one indexer, and show_in_library calls.                   *)

\* The sequences of at most n different elements of S.
RECURSIVE SeqsOfDistinct(_, _)
SeqsOfDistinct(S, n) ==
    IF n = 0 THEN {<< >>}
    ELSE LET shorter == SeqsOfDistinct(S, n - 1)
         IN shorter \cup
            {Append(q, x) : <<q, x>> \in {t \in shorter \X S :
                                            \A i \in DOMAIN t[1] : t[1][i] # t[2]}}

Show(indexer, series_id, externals) ==
    [indexer |-> indexer, series_id |-> series_id, externals |-> externals]

LibShows == {Show(indexer, series_id, << >>) : indexer \in Indexers, series_id \in Ids}
Libraries == SeqsOfDistinct(LibShows, MaxShows)

\* Mappings are saved for one show of one indexer, TVmaze.
LibSavers == {3}
LibSeries == {1}
LibSaveInputs == DictsOver(<<"tvdb_id", "tmdb_id">>, Ids)

CallLibSave == /\ call = NoCall
               /\ nSaves < MaxSaves
               /\ \E indexer \in LibSavers, series_id \in LibSeries, externals \in LibSaveInputs :
                     Invoke("save", indexer, series_id, externals)

CallShowInLibrary == /\ call = NoCall
                     /\ \E indexer \in Indexers, indexer_id \in Ids :
                           Invoke("show_in_library", indexer, indexer_id, << >>)

InitLib == /\ db = {}
           /\ nSaves = 0
           /\ showList \in Libraries
           /\ USE_TRAKT = FALSE
           /\ call = NoCall
           /\ ret = NoRet
           /\ gx = NoGx
           /\ tk = NoTk

NextLib == \/ CallLibSave
           \/ save_externals_to_db
           \/ CallShowInLibrary
           \/ show_in_library

SpecLib == InitLib /\ [][NextLib]_vars

\* The step in which the body of show_in_library runs.
ShowInLibraryRuns == call.op = "show_in_library" /\ call'.op = "none"

\* The shows of the library that a loaded mapping names.
Named(loaded) ==
    {j \in DOMAIN showList :
        \E it \in Items(loaded) : /\ mappings[showList[j].indexer] = it[1]
                                  /\ showList[j].series_id = it[2]}

----------------------------------------------------------------------------
(* get_trakt_externals *)

trakt_mapping == [key \in {"tvdb_id", "imdb_id", "tmdb_id", "trakt_id"} |->
                    CASE key = "tvdb_id" -> "tvdb"
                      [] key = "imdb_id" -> "imdb"
                      [] key = "tmdb_id" -> "tmdb"
                      [] key = "trakt_id" -> "trakt"]

trakt_mapping_rev == [id_type \in {trakt_mapping[key] : key \in DOMAIN trakt_mapping} |->
                        CHOOSE key \in DOMAIN trakt_mapping : trakt_mapping[key] = id_type]

TraktSkipsUnknownOnly(externals, external_key) ==
    external_key \notin DOMAIN trakt_mapping

\* The test that makes the loop go on to the next key without a lookup.
TraktSkips(externals, external_key) ==
    \/ external_key \notin DOMAIN trakt_mapping
    \/ Get(externals, external_key) = Empty

\* The dict built from the ids of the first search result.
RECURSIVE TraktIds(_)
TraktIds(raw) ==
    IF raw = << >> THEN << >>
    ELSE (IF Head(raw).v # Empty /\ Head(raw).k \in DOMAIN trakt_mapping_rev
          THEN << [k |-> trakt_mapping_rev[Head(raw).k], v |-> Head(raw).v] >>
          ELSE << >>)
         \o TraktIds(Tail(raw))

\* What sync.search_by_id can give: an error (TraktException or
\* RequestException), no usable result (no result, or a result without
\* ids), or a first result with its ids.
RawIds == DictsOver(<<"tvdb", "imdb", "slug">>, Vals) \ {<< >>}
SearchOutcomes == {[kind |-> "error", ids |-> << >>], [kind |-> "nothing", ids |-> << >>]}
                  \cup {[kind |-> "ids", ids |-> raw] : raw \in RawIds}

\* One pass of the loop body on the key at tk.pos, the search giving outcome.
TraktIteration(t, outcome) ==
    LET external_key == t.externals[t.pos].k
        looked == [t EXCEPT !.tried = Append(@, external_key),
                            !.outcomes = Append(@, outcome.kind)]
    IN IF TraktSkips(t.externals, external_key)
       THEN [t EXCEPT !.pos = @ + 1]
       ELSE CASE outcome.kind = "error" -> [looked EXCEPT !.pc = "done", !.ret = << >>]
              [] outcome.kind = "ids" -> [looked EXCEPT !.pc = "done", !.ret = TraktIds(outcome.ids)]
              [] OTHER -> [looked EXCEPT !.pos = @ + 1]

TraktStart(externals) ==
    [pc |-> "loop", externals |-> externals, pos |-> 1,
     tried |-> << >>, outcomes |-> << >>, ret |-> << >>]

\* The loop goes past a key without looking it up.
TraktSkip ==
    /\ tk.pc = "loop" /\ tk.pos <= Len(tk.externals)
    /\ TraktSkips(tk.externals, tk.externals[tk.pos].k)
    /\ tk' = TraktIteration(tk, [kind |-> "nothing", ids |-> << >>])
    /\ UNCHANGED <<db, nSaves, showList, USE_TRAKT, call, ret, gx>>

\* The loop looks a key up.
TraktLookup ==
    /\ tk.pc = "loop" /\ tk.pos <= Len(tk.externals)
    /\ ~TraktSkips(tk.externals, tk.externals[tk.pos].k)
    /\ \E outcome \in SearchOutcomes : tk' = TraktIteration(tk, outcome)
    /\ UNCHANGED <<db, nSaves, showList, USE_TRAKT, call, ret, gx>>

\* The loop is over: return {}.
TraktExhausted ==
    /\ tk.pc = "loop" /\ tk.pos > Len(tk.externals)
    /\ tk' = [tk EXCEPT !.pc = "done", !.ret = << >>]
    /\ UNCHANGED <<db, nSaves, showList, USE_TRAKT, call, ret, gx>>

\* Every return value get_trakt_externals(externals) can have, from the
\* key at pos on.
RECURSIVE TraktResults(_, _)
TraktResults(externals, pos) ==
    IF pos > Len(externals) THEN {<< >>}
    ELSE IF TraktSkips(externals, externals[pos].k)
         THEN TraktResults(externals, pos + 1)
         ELSE {<< >>} \cup {TraktIds(raw) : raw \in RawIds}
              \cup TraktResults(externals, pos + 1)

----------------------------------------------------------------------------
(* Specification of get_trakt_externals, one step per pass of its loop.    *)

\* The dicts over the keys K in every order.
RECURSIVE AllDicts(_, _)
AllDicts(K, V) ==
    IF K = {} THEN {<< >>}
    ELSE UNION {AllDicts(K \ {key}, V)
                \cup {<<[k |-> key, v |-> val]>> \o d : val \in V, d \in AllDicts(K \ {key}, V)}
                : key \in K}

TraktInputs == AllDicts({"tvdb_id", "imdb_id", "tvmaze_id"}, Vals)

InitTrakt == /\ db = {}
             /\ nSaves = 0
             /\ showList = << >>
             /\ USE_TRAKT = TRUE
             /\ call = NoCall
             /\ ret = NoRet
             /\ gx = NoGx
             /\ \E externals \in TraktInputs : tk = TraktStart(externals)

NextTrakt == \/ TraktSkip
             \/ TraktLookup
             \/ TraktExhausted

SpecTrakt == InitTrakt /\ [][NextTrakt]_vars

\* The keys of externals that Trakt can be asked about, in the dict's order.
RECURSIVE TraktKeysOf(_, _)
TraktKeysOf(externals, pos) ==
    IF pos > Len(externals) THEN << >>
    ELSE (IF externals[pos].k \in {"tvdb_id", "imdb_id", "tmdb_id", "trakt_id"}
             /\ externals[pos].v # Empty
          THEN << externals[pos].k >> ELSE << >>)
         \o TraktKeysOf(externals, pos + 1)

IsPrefix(p, q) == Len(p) <= Len(q) /\ \A i \in DOMAIN p : p[i] = q[i]

\* C7: the lookups made are the askable keys in order, up to the first
\* lookup that yields ids or fails; a failure returns {} at once; every
\* returned mapping has keys among tvdb_id, imdb_id, tmdb_id, trakt_id, with
\* non-empty values.
C7_TraktFirstHitOrError ==
    LET askable == TraktKeysOf(tk.externals, 1)
        n == Len(tk.tried)
    IN tk.pc \in {"loop", "done"} =>
        /\ IsPrefix(tk.tried, askable)
        /\ \A i \in 1..n : (tk.outcomes[i] # "nothing") => (i = n /\ tk.pc = "done")
        /\ tk.pc = "done"
             => /\ (n = 0 \/ tk.outcomes[n] = "nothing") => (tk.tried = askable /\ tk.ret = << >>)
                /\ (n > 0 /\ tk.outcomes[n] = "error") => tk.ret = << >>
                /\ \A it \in Items(tk.ret) :
                      it[1] \in {"tvdb_id", "imdb_id", "tmdb_id", "trakt_id"} /\ it[2] # Empty

\* Of three keys the first is skipped, the lookup of the second fails, and
\* the third, which could be asked about, is not tried.
C7_Witness ==
    /\ tk.pc = "done"
    /\ Len(tk.externals) = 3
    /\ tk.externals[1].k = "tvmaze_id"
    /\ Len(TraktKeysOf(tk.externals, 1)) = 2
    /\ tk.outcomes = << "error" >>
    /\ tk.ret = << >>

----------------------------------------------------------------------------
(* get_externals *)

AllIndexers(indexer) ==
    [i \in DOMAIN indexerConfig |-> indexerConfig[i].id]

\* other_indexers: the indexers of indexerConfig but the originating one, in
\* the order of the config.
OtherIndexers(indexer) ==
    LET ids == [i \in DOMAIN indexerConfig |-> indexerConfig[i].id]
        Other(id) == id # indexer
    IN SelectSeq(ids, Other)

\* What one pass of the loop over other_indexers can meet: the indexer is
\* unavailable (IndexerUnavailable), it has no get_id_by_external, the call
\* raises IndexerException or RequestException, or it answers with a dict.
AnswerDicts == DictsOver(<<"tvdb_id", "imdb_id">>, Vals)
ProviderOutcomes ==
    {[kind |-> k, answer |-> << >>] : k \in {"unavailable", "no_method", "error"}}
    \cup {[kind |-> "answer", answer |-> a] : a \in AnswerDicts}

\* new_show_externals after one pass of the loop.
AfterProvider(externals, outcome) ==
    IF outcome.kind = "answer" THEN Update(externals, outcome.answer) ELSE externals

ProviderIterationAborts(g, outcome) ==
    IF outcome.kind \in {"unavailable", "error"}
    THEN [g EXCEPT !.pc = "raised"]
    ELSE [g EXCEPT !.todo = Tail(@),
                   !.log = Append(@, [who |-> Head(g.todo), kind |-> outcome.kind,
                                      args |-> IF outcome.kind = "answer"
                                               THEN g.new_show_externals ELSE << >>,
                                      answer |-> outcome.answer]),
                   !.new_show_externals = AfterProvider(@, outcome)]

\* One pass of the loop, for the indexer at the head of todo.  The log keeps
\* who was tried, what happened, and the externals passed to
\* get_id_by_external when it was called.
ProviderIteration(g, outcome) ==
    [g EXCEPT !.todo = Tail(@),
              !.log = Append(@, [who |-> Head(g.todo), kind |-> outcome.kind,
                                 args |-> IF outcome.kind \in {"error", "answer"}
                                          THEN g.new_show_externals ELSE << >>,
                                 answer |-> outcome.answer]),
              !.new_show_externals = AfterProvider(@, outcome)]

\* The id under which the log names Trakt.
TraktSource == CHOOSE i \in DOMAIN mappings : mappings[i] = "trakt_id"

GxStart(indexer, externals) ==
    [pc |-> "providers", indexer |-> indexer, given |-> externals,
     new_show_externals |-> externals, todo |-> OtherIndexers(indexer),
     log |-> << >>, ret |-> << >>]

GetExternalsProvider ==
    /\ gx.pc = "providers" /\ gx.todo # << >>
    /\ \E outcome \in ProviderOutcomes : gx' = ProviderIteration(gx, outcome)
    /\ UNCHANGED <<db, nSaves, showList, USE_TRAKT, call, ret, tk>>

\* After the loop, with app.USE_TRAKT: the Trakt externals are merged in.
GetExternalsTrakt ==
    /\ gx.pc = "providers" /\ gx.todo = << >>
    /\ USE_TRAKT
    /\ \E found \in TraktResults(gx.new_show_externals, 1) :
          LET merged == Update(gx.new_show_externals, found)
          IN gx' = [gx EXCEPT !.pc = "done",
                              !.log = Append(@, [who |-> TraktSource, kind |-> "trakt",
                                                 args |-> gx.new_show_externals,
                                                 answer |-> found]),
                              !.new_show_externals = merged,
                              !.ret = merged]
    /\ UNCHANGED <<db, nSaves, showList, USE_TRAKT, call, ret, tk>>

\* After the loop, without app.USE_TRAKT.
GetExternalsReturn ==
    /\ gx.pc = "providers" /\ gx.todo = << >>
    /\ ~USE_TRAKT
    /\ gx' = [gx EXCEPT !.pc = "done", !.ret = gx.new_show_externals]
    /\ UNCHANGED <<db, nSaves, showList, USE_TRAKT, call, ret, tk>>

\* Every value get_externals can return.
RECURSIVE ProvidersResults(_, _)
ProvidersResults(externals, todo) ==
    IF todo = << >> THEN {externals}
    ELSE UNION {ProvidersResults(AfterProvider(externals, outcome), Tail(todo)) :
                    outcome \in ProviderOutcomes}

GetExternalsResults(indexer, externals, use_trakt) ==
    LET after == ProvidersResults(externals, OtherIndexers(indexer))
    IN IF use_trakt
       THEN UNION {{Update(e, found) : found \in TraktResults(e, 1)} : e \in after}
       ELSE after

----------------------------------------------------------------------------
(* Specification of get_externals, one step per indexer tried.             *)

GivenInputs == DictsOver(<<"tvdb_id", "imdb_id">>, Vals)

InitExternals == /\ db = {}
                 /\ nSaves = 0
                 /\ showList = << >>
                 /\ USE_TRAKT \in BOOLEAN
                 /\ call = NoCall
                 /\ ret = NoRet
                 /\ tk = NoTk
                 /\ \E indexer \in Indexers, externals \in GivenInputs :
                       gx = GxStart(indexer, externals)

NextExternals == \/ GetExternalsProvider
                 \/ GetExternalsTrakt
                 \/ GetExternalsReturn

SpecExternals == InitExternals /\ [][NextExternals]_vars

\* The externals accumulated before entry i of the log: the given ones,
\* updated with the answers of the entries before i.
RECURSIVE Accumulated(_, _, _)
Accumulated(given, log, i) ==
    IF i = 1 THEN given
    ELSE LET before == Accumulated(given, log, i - 1)
         IN IF log[i - 1].kind \in {"answer", "trakt"}
            THEN Update(before, log[i - 1].answer)
            ELSE before

C4_GivenIdsKept ==
    gx.pc = "done" =>
        \A it \in Items(gx.given) : it[2] # Empty => Get(gx.ret, it[1]) = it[2]

\* C8: an indexer that is unavailable, or whose get_id_by_external raises,
\* leaves the externals as they were and the loop going; the call never
\* ends in an exception, and when it returns every other indexer has been
\* tried and the aggregated externals are returned.
C8_FailingProviderSkipped ==
    [][/\ gx'.pc \in {"providers", "done"}
       /\ (Len(gx'.log) = Len(gx.log) + 1
             /\ gx'.log[Len(gx'.log)].kind \in {"unavailable", "error"})
            => /\ gx'.new_show_externals = gx.new_show_externals
               /\ gx'.pc = "providers"
               /\ gx'.todo = Tail(gx.todo)
       /\ gx'.pc = "done"
            => /\ {gx'.log[i].who : i \in {j \in DOMAIN gx'.log : gx'.log[j].kind # "trakt"}}
                    = Indexers \ {gx'.indexer}
               /\ gx'.ret = gx'.new_show_externals]_vars

\* A finished call: the first indexer failed, the second still answered,
\* and the IDs it added are returned.
C8_Witness ==
    /\ gx.pc = "done" /\ ~USE_TRAKT
    /\ Len(gx.log) = 2
    /\ gx.log[1].kind = "error" /\ gx.log[2].kind = "answer"
    /\ gx.log[2].args = gx.given
    /\ gx.ret # gx.given

----------------------------------------------------------------------------
(* check_existing_shows *)

\* The first test of the loop body: the library show has, under the
\* originating indexer's mapped_to key, the id of the indexed show.
IdMatches(show, indexer, id) ==
    /\ Get(show.externals, mappings[indexer]) # Empty
    /\ id = Get(show.externals, mappings[indexer])

RECURSIVE ExternalsMatchUnguarded(_, _, _, _)
ExternalsMatchUnguarded(show, new_show_externals, rest, other_indexers) ==
    IF rest = << >> THEN FALSE
    ELSE LET new_show_external_key == Head(rest).k
         IN IF \A i \in DOMAIN other_indexers : other_indexers[i] # show.indexer
            THEN ExternalsMatchUnguarded(show, new_show_externals, Tail(rest), other_indexers)
            ELSE IF Get(new_show_externals, new_show_external_key)
                       = Get(show.externals, new_show_external_key)
                 THEN TRUE
                 ELSE ExternalsMatchUnguarded(show, new_show_externals, Tail(rest), other_indexers)

\* The loop over the keys of new_show_externals for one library show: TRUE
\* when it raises IndexerShowAlreadyInLibrary.
RECURSIVE ExternalsMatch(_, _, _, _)
ExternalsMatch(show, new_show_externals, rest, other_indexers) ==
    IF rest = << >> THEN FALSE
    ELSE LET new_show_external_key == Head(rest).k
         IN IF \A i \in DOMAIN other_indexers : other_indexers[i] # show.indexer
            THEN ExternalsMatch(show, new_show_externals, Tail(rest), other_indexers)
            ELSE IF \/ Get(new_show_externals, new_show_external_key) = Empty
                    \/ Get(show.externals, new_show_external_key) = Empty
                 THEN ExternalsMatch(show, new_show_externals, Tail(rest), other_indexers)
                 ELSE IF Get(new_show_externals, new_show_external_key)
                            = Get(show.externals, new_show_external_key)
                      THEN TRUE
                      ELSE ExternalsMatch(show, new_show_externals, Tail(rest), other_indexers)

RECURSIVE CheckLoopFirstShow(_, _, _, _)
CheckLoopFirstShow(shows, indexer, id, new_show_externals) ==
    IF shows = << >> THEN FALSE
    ELSE \/ IdMatches(Head(shows), indexer, id)
         \/ ExternalsMatch(Head(shows), new_show_externals, new_show_externals,
                           OtherIndexers(indexer))

\* The loop over app.showList: TRUE when the call raises
\* IndexerShowAlreadyInLibrary, FALSE when it returns.
RECURSIVE CheckLoop(_, _, _, _)
CheckLoop(shows, indexer, id, new_show_externals) ==
    IF shows = << >> THEN FALSE
    ELSE IF IdMatches(Head(shows), indexer, id)
         THEN TRUE
         ELSE IF ExternalsMatch(Head(shows), new_show_externals, new_show_externals,
                                OtherIndexers(indexer))
              THEN TRUE
              ELSE CheckLoop(Tail(shows), indexer, id, new_show_externals)

\* The externals of the indexed shows handed to check_existing_shows, and
\* for each call what its get_externals call can return.
CheckGivens == DictsOver(<<"imdb_id">>, Vals)
CheckExternals == {<<a, GetExternalsResults(a[1], a[2], a[3])>> :
                      a \in Indexers \X CheckGivens \X BOOLEAN}
GetExternalsOf(indexer, externals, use_trakt) ==
    (CHOOSE p \in CheckExternals : p[1] = <<indexer, externals, use_trakt>>)[2]

\* call.id is indexed_show['id'], call.externals is indexed_show.externals.
check_existing_shows ==
    /\ call.op = "check_existing_shows"
    /\ \E new_show_externals \in GetExternalsOf(call.indexer, call.externals, USE_TRAKT) :
          ret' = [NoRet EXCEPT !.op = "check_existing_shows",
                               !.externals = new_show_externals,
                               !.raised = CheckLoop(showList, call.indexer, call.id,
                                                    new_show_externals)]
    /\ call' = NoCall
    /\ UNCHANGED <<db, nSaves, showList, USE_TRAKT, gx, tk>>

----------------------------------------------------------------------------
(* Specification of the duplicate check: a library of shows with their     *)
(* externals, and check_existing_shows calls.                              *)

\* The shows of the library: added through TVDB or TVmaze, with at most one
\* external ID each.
CheckShowIndexers == {1, 3}
CheckShows == {Show(indexer, 1, externals) :
                  indexer \in CheckShowIndexers,
                  externals \in {d \in DictsOver(<<"tvdb_id", "imdb_id">>, Ids) : Len(d) <= 1}}
CheckLibraries == SeqsOfDistinct(CheckShows, MaxShows)

CallCheckExistingShows ==
    /\ call = NoCall
    /\ \E indexer \in Indexers, id \in Ids, externals \in CheckGivens :
          Invoke("check_existing_shows", indexer, id, externals)

InitCheck == /\ db = {}
             /\ nSaves = 0
             /\ showList \in CheckLibraries
             /\ USE_TRAKT \in BOOLEAN
             /\ call = NoCall
             /\ ret = NoRet
             /\ gx = NoGx
             /\ tk = NoTk

NextCheck == \/ CallCheckExistingShows
             \/ check_existing_shows

SpecCheck == InitCheck /\ [][NextCheck]_vars

\* The step in which the body of check_existing_shows runs.
CheckRuns == call.op = "check_existing_shows" /\ call'.op = "none"

\* The library shows with a non-empty ID equal to the non-empty ID that the
\* aggregated externals have under the same key.
SharingAnId(aggregated) ==
    {j \in DOMAIN showList :
        \E it \in Items(aggregated) :
            it[2] # Empty /\ <<it[1], it[2]>> \in Items(showList[j].externals)}

\* The library shows whose ID under the originating indexer's mapped_to key
\* is the id of the indexed show.
HavingTheId(indexer, id) ==
    {j \in DOMAIN showList :
        id # Empty /\ <<indexerConfig[CHOOSE i \in DOMAIN indexerConfig :
                                         indexerConfig[i].id = indexer].mapped_to, id>>
                         \in Items(showList[j].externals)}

C2_RaisesOnlyOnExactMatch ==
    [][CheckRuns =>
         (ret'.raised =>
            (HavingTheId(call.indexer, call.id) # {} \/ SharingAnId(ret'.externals) # {}))]_vars

\* The call returned although every show of the library has an ID under a
\* key of the aggregated externals: none of them is equal.
C2_Witness ==
    /\ ret.op = "check_existing_shows" /\ ~ret.raised
    /\ Len(showList) = 2
    /\ Len(ret.externals) = 2
    /\ \A i \in DOMAIN ret.externals : ret.externals[i].v # Empty
    /\ \A j \in DOMAIN showList : showList[j].externals # <<>>
    /\ UNION {DictKeys(showList[j].externals) : j \in DOMAIN showList} = DictKeys(ret.externals)
    /\ SharingAnId(ret.externals) = {}

====
